---- MODULE Spec2Model ----
(***************************************************************************)
(* hir-def child_by_source: the reverse index from syntax nodes to the     *)
(* identifiers the forward pass lowered them to.                           *)
(*                                                                         *)
(* A call child_by_source(container, file_id) allocates an empty DynMap,   *)
(* runs the container's child_by_source_to traversal, which inserts one    *)
(* (key, node, id) entry at a time, and returns the map.  The database     *)
(* snapshot is read only.  Callers run concurrently against one snapshot.  *)
(***************************************************************************)
EXTENDS Naturals, Sequences, FiniteSets

VARIABLES
    db,         \* the database snapshot the calls read
    pc,         \* per caller: "idle", "run" (inside child_by_source_to), "done"
    container,  \* per caller: the container of the current call
    file_id,    \* per caller: the requested HirFileId
    todo,       \* per caller: the insertions the traversal has still to make, in order
    res         \* per caller: the DynMap of the current call

vars == <<db, pc, container, file_id, todo, res>>

\* ---------------------------------------------------------------- bounds

\* HirFileIds: 1 is the real file, the others are macro expansion files.
NumFiles == 2
\* Longest attribute sequence collect_attrs yields for the derived item.
MaxAttrs == 3

Files == 1..NumFiles
Callers == {"c1", "c2"}

\* ------------------------------------------------------------ identifiers

\* An interned id: its kind and its index.  Item ids use the position of the
\* item in its item tree as index.
Id(k, n) == [kind |-> k, idx |-> n]

NoContainer == [tag |-> "None", id |-> Id("None", 0)]

TraitC(id) == [tag |-> "TraitId", id |-> id]
ImplC(id) == [tag |-> "ImplId", id |-> id]
ModuleC(id) == [tag |-> "ModuleId", id |-> id]
VariantC(id) == [tag |-> "VariantId", id |-> id]
EnumC(id) == [tag |-> "EnumId", id |-> id]
BodyC(id) == [tag |-> "DefWithBodyId", id |-> id]

\* The crate under analysis.
TheModule == Id("ModuleId", 100)
TheFn == Id("FunctionId", 1)
TheConst == Id("ConstId", 2)
TheStatic == Id("StaticId", 3)
TheTypeAlias == Id("TypeAliasId", 4)
TheTrait == Id("TraitId", 5)
TheTraitAlias == Id("TraitAliasId", 6)
TheStruct == Id("StructId", 7)
TheUnion == Id("UnionId", 8)
TheEnum == Id("EnumId", 9)
TheMacro2 == Id("Macro2Id", 10)
TheMacroRules == Id("MacroRulesId", 11)
TheProcMacro == Id("ProcMacroId", 12)
ChildModule == Id("ModuleId", 13)
TheImpl == Id("ImplId", 14)
TheExternCrate == Id("ExternCrateId", 15)
TheUse == Id("UseId", 16)
AnonConst == Id("ConstId", 17)
OuterMacroRules == Id("MacroRulesId", 20)
VariantA == Id("EnumVariantId", 34)
VariantB == Id("EnumVariantId", 35)

\* Macro calls.  NoCall is the unresolved slot of a derive (Option::None).
Call(n) == Id("MacroCallId", n)
NoCall == Id("None", 0)

\* ------------------------------------------------------------ the snapshot

\* Ids are placed in files group by group: the snapshot chooses a file for
\* each group.  An enum and its variants are in one group.
Groups == {"g1", "g2", "g3"}

GroupOf(id) ==
    IF id.idx \in {2, 4, 8, 9, 12, 15, 20, 22, 27, 33, 34, 35, 37, 39} THEN "g2"
    ELSE IF id.idx \in {3, 6, 11, 16, 17, 18, 25, 28, 30, 38} THEN "g3"
    ELSE "g1"

AttrKinds == {"Attr", "Comment"}

RECURSIVE SeqsUpTo(_, _)
SeqsUpTo(S, n) ==
    IF n = 0 THEN {<<>>}
    ELSE LET shorter == SeqsUpTo(S, n - 1)
         IN  shorter \cup {Append(s, x) : s \in {t \in shorter : Len(t) = n - 1}, x \in S}

\* The attributes of the derived item: derive, doc comment, derive; and a
\* doc comment before a single derive, which leaves the recorded indexes
\* 0 and 2 stale.
DocBetween == <<"Attr", "Comment", "Attr">>
DocFirst == <<"Comment", "Attr">>

\* The snapshots: every placement of the groups with the derives on both
\* sides of the doc comment; the placements that keep the first group in the
\* real file with the stale indexes; and every attribute sequence of the
\* derived item with all groups in the real file.
Snapshots ==
    {[fileOf |-> fo, attrs |-> DocBetween] : fo \in [Groups -> Files]}
    \cup {[fileOf |-> fo, attrs |-> DocFirst] : fo \in {x \in [Groups -> Files] : x["g1"] = 1}}
    \cup {[fileOf |-> [g \in Groups |-> 1], attrs |-> a] : a \in SeqsUpTo(AttrKinds, MaxAttrs)}

\* id.lookup(db): the ItemLoc's ItemTreeId, a file and a position in its tree.
lookup(id) == [file |-> db.fileOf[GroupOf(id)], value |-> id.idx]

\* A syntax node: its file, the item it is or belongs to, and the part of
\* that item it is.
Node(f, item, part) == [file |-> f, item |-> item, part |-> part]

\* loc.source(db).value: the item's own node in the loc's file.
source(loc) == Node(loc.file, loc.value, <<"item", 0>>)

\* An AstId: the file and the position of the item.
AstId(f, n) == [file_id |-> f, value |-> n]

\* ast_id.to_node(db)
to_node(ast_id) == Node(ast_id.file_id, ast_id.value, <<"item", 0>>)

Left(v) == [tag |-> "Left", value |-> v]
Right(v) == [tag |-> "Right", value |-> v]
None == [tag |-> "None"]
Some(v) == [tag |-> "Some", value |-> v]

\* collect_attrs(&adt): the attributes and doc comments of the item, in
\* source order; an attribute is Left, a doc comment Right.
collect_attrs(adt) ==
    [i \in 1..Len(db.attrs) |->
        IF db.attrs[i] = "Attr"
        THEN Left(Node(adt.file, adt.item, <<"attr", i - 1>>))
        ELSE Right(Node(adt.file, adt.item, <<"comment", i - 1>>))]

\* Fault: nth counting from one.
nth_from_one(s, n) == IF 1 <= n /\ n <= Len(s) THEN Some(s[n]) ELSE None

\* Iterator::nth, zero based.
nth(s, n) == IF n < Len(s) THEN Some(s[n + 1]) ELSE None

\* The site of an attribute macro call in the group's file.
AttrCall(item, call) ==
    [ast_id |-> AstId(db.fileOf[GroupOf(Call(call))], item), call_id |-> Call(call)]

\* A derive attribute's record: attr_id (its ast index), the derive
\* attribute's own call and the calls of its derives.
DeriveInvoc(i, call, calls) == [attr_id |-> i, call_id |-> call, calls |-> calls]

EmptyScope ==
    [declarations |-> <<>>, impls |-> <<>>, extern_crate_decls |-> <<>>,
     use_decls |-> <<>>, unnamed_consts |-> <<>>, attr_macro_invocs |-> <<>>,
     legacy_macros |-> <<>>, derive_macro_invocs |-> <<>>]

\* def_map[local_id].scope of the module.
ModuleScope ==
    [declarations |->
        <<TheFn, TheConst, TheStatic, TheTypeAlias, TheTrait, TheTraitAlias,
          TheStruct, TheUnion, TheEnum, TheMacro2, TheMacroRules, TheProcMacro,
          ChildModule>>,
     impls |-> <<TheImpl>>,
     extern_crate_decls |-> <<TheExternCrate>>,
     use_decls |-> <<TheUse>>,
     unnamed_consts |-> <<AnonConst>>,
     attr_macro_invocs |-> <<AttrCall(19, 18)>>,
     legacy_macros |->
        <<[name |-> "m", ids |-> <<TheMacroRules>>],
          [name |-> "outer", ids |-> <<OuterMacroRules, TheMacro2>>]>>,
     derive_macro_invocs |->
        <<[ast_id |-> AstId(lookup(TheStruct).file, lookup(TheStruct).value),
           calls |-> <<DeriveInvoc(0, Call(21), <<Call(22)>>),
                       DeriveInvoc(2, Call(23), <<NoCall>>)>>]>>]

\* Scopes of the block expressions of the function's body.
BlockScopeA == [EmptyScope EXCEPT !.declarations = <<Id("FunctionId", 36)>>]
BlockScopeB ==
    [EmptyScope EXCEPT !.declarations = <<Id("StructId", 37)>>,
                       !.impls = <<Id("ImplId", 38)>>]
\* Scope of the block in the variant's discriminant expression.
BlockScopeC == [EmptyScope EXCEPT !.declarations = <<Id("ConstId", 39)>>]

\* db.trait_data(id)
trait_data(id) ==
    [attribute_calls |-> <<AttrCall(24, 25)>>,
     items |-> <<<<"f", Id("FunctionId", 26)>>, <<"C", Id("ConstId", 27)>>,
                 <<"T", Id("TypeAliasId", 28)>>>>]

\* db.impl_data(id)
impl_data(id) ==
    [attribute_calls |-> <<AttrCall(29, 30)>>,
     items |-> <<Id("FunctionId", 31), Id("ConstId", 32), Id("TypeAliasId", 33)>>]

\* The field arena of a variant: each slot a tuple field or a record field.
FieldForms(v) ==
    IF v = TheStruct THEN <<"Tuple", "Tuple">>
    ELSE IF v = VariantA THEN <<"Record">>
    ELSE IF v = TheUnion THEN <<"Record", "Record">>
    ELSE <<>>

\* v.child_source(db): InFile of the arena map from local field ids
\* (0, 1, ...) to the fields' nodes.
child_source(v) ==
    [file_id |-> lookup(v).file,
     value |->
        [i \in 1..Len(FieldForms(v)) |->
            [local_id |-> i - 1,
             source |->
                IF FieldForms(v)[i] = "Tuple"
                THEN Left(Node(lookup(v).file, v.idx, <<"field", i - 1>>))
                ELSE Right(Node(lookup(v).file, v.idx, <<"field", i - 1>>))]]]

\* db.enum_data(id).variants
enum_data(id) == [variants |-> <<<<VariantA, "A">>, <<VariantB, "B">>>>]

\* db.body(def).blocks(db): the root scopes of the body's block def maps.
blocks(def) ==
    IF def = TheFn THEN <<BlockScopeA, BlockScopeB>>
    ELSE IF def = VariantA THEN <<BlockScopeC>>
    ELSE <<>>

Traits == {TheTrait}
Impls == {TheImpl}
Modules == {TheModule}
Variants == {TheStruct, VariantA}
Enums == {TheEnum}
Bodies == {TheFn, VariantA}

\* --------------------------------------------------------------- the DynMap

\* One insertion: res[key].insert(node, id).
Entry(key, node, id) == [key |-> key, node |-> node, id |-> id]

\* Fault: one index shared by all the calls.
SharedIndex == UNION {res[q] : q \in Callers}

\* DynMap::default()
DynMapDefault == {}

\* res[key].insert(node, id): the key's map takes the node's new value.
DynMapInsert(map, e) ==
    {x \in map : ~(x.key = e.key /\ x.node = e.node)} \cup {e}

\* iter.for_each(op): the insertions each element makes, one element after
\* the other.  ss[i] are the insertions of element i.
ForEach(ss) ==
    LET f[i \in 0..Len(ss)] == IF i = 0 THEN <<>> ELSE f[i - 1] \o ss[i]
    IN  f[Len(ss)]

\* ------------------------------------------------------------- traversals

\* The insert! pattern: look the id up, and insert it under the key when
\* its file is the requested one.
InsertIfInFile(key, file, id) ==
    LET loc == lookup(id)
    IN  IF loc.file = file THEN <<Entry(key, source(loc), id)>> ELSE <<>>

\* The attribute macro calls of a trait, an impl or a scope whose site is in
\* the requested file.
AttrMacroCalls(calls, file) ==
    LET InFile(c) == c.ast_id.file_id = file
        Ins(c) == <<Entry("ATTR_MACRO_CALL", to_node(c.ast_id), c.call_id)>>
        in_file == SelectSeq(calls, InFile)
    IN  ForEach([i \in DOMAIN in_file |-> Ins(in_file[i])])

\* Fault: a constant recorded under the function key.
add_assoc_item_const_as_fn(file, item) ==
    IF item.kind = "FunctionId" THEN InsertIfInFile("FUNCTION", file, item)
    ELSE IF item.kind = "ConstId" THEN InsertIfInFile("FUNCTION", file, item)
    ELSE InsertIfInFile("TYPE_ALIAS", file, item)

add_assoc_item(file, item) ==
    IF item.kind = "FunctionId" THEN InsertIfInFile("FUNCTION", file, item)
    ELSE IF item.kind = "ConstId" THEN InsertIfInFile("CONST", file, item)
    ELSE InsertIfInFile("TYPE_ALIAS", file, item)

TraitId_child_by_source_to(self, file) ==
    LET data == trait_data(self)
        Item(it) == add_assoc_item(file, it[2])
    IN  AttrMacroCalls(data.attribute_calls, file)
        \o ForEach([i \in DOMAIN data.items |-> Item(data.items[i])])

ImplId_child_by_source_to(self, file) ==
    LET data == impl_data(self)
        Item(it) == add_assoc_item(file, it)
    IN  AttrMacroCalls(data.attribute_calls, file)
        \o ForEach([i \in DOMAIN data.items |-> Item(data.items[i])])

add_module_def(file, item) ==
    CASE item.kind = "FunctionId" -> InsertIfInFile("FUNCTION", file, item)
      [] item.kind = "ConstId" -> InsertIfInFile("CONST", file, item)
      [] item.kind = "StaticId" -> InsertIfInFile("STATIC", file, item)
      [] item.kind = "TypeAliasId" -> InsertIfInFile("TYPE_ALIAS", file, item)
      [] item.kind = "TraitId" -> InsertIfInFile("TRAIT", file, item)
      [] item.kind = "TraitAliasId" -> InsertIfInFile("TRAIT_ALIAS", file, item)
      [] item.kind = "StructId" -> InsertIfInFile("STRUCT", file, item)
      [] item.kind = "UnionId" -> InsertIfInFile("UNION", file, item)
      [] item.kind = "EnumId" -> InsertIfInFile("ENUM", file, item)
      [] item.kind = "Macro2Id" -> InsertIfInFile("MACRO2", file, item)
      [] item.kind = "MacroRulesId" -> InsertIfInFile("MACRO_RULES", file, item)
      [] item.kind = "ProcMacroId" -> InsertIfInFile("PROC_MACRO", file, item)
      [] item.kind \in {"ModuleId", "EnumVariantId", "BuiltinType"} -> <<>>

\* Fault: the impl recorded whatever its file.
add_impl_any_file(file, imp) == <<Entry("IMPL", source(lookup(imp)), imp)>>

add_impl(file, imp) == InsertIfInFile("IMPL", file, imp)

\* Fault: the extern crate recorded under the use key.
add_extern_crate_as_use(file, ext) == InsertIfInFile("USE", file, ext)

add_extern_crate(file, ext) == InsertIfInFile("EXTERN_CRATE", file, ext)

\* Fault: the use recorded whatever its file.
add_use_any_file(file, ext) == <<Entry("USE", source(lookup(ext)), ext)>>

add_use(file, ext) == InsertIfInFile("USE", file, ext)

\* The unnamed_consts closure.
add_unnamed_const(file, konst) == InsertIfInFile("CONST", file, konst)

\* The legacy_macros closure: only macro_rules ids are recorded.
add_legacy_macro(file, id) ==
    IF id.kind = "MacroRulesId" THEN InsertIfInFile("MACRO_RULES", file, id) ELSE <<>>

\* Fault: the first attribute, whatever the derive's index.
DeriveSlotFirst(adt, attr_id) == nth(collect_attrs(adt), 0)

\* collect_attrs(&adt).nth(attr_id.ast_index())
DeriveSlot(adt, attr_id) == nth(collect_attrs(adt), attr_id)

\* The derive_macro_invocs closure for one item: each derive attribute whose
\* slot holds an attribute is recorded at that attribute.
add_derives(inv) ==
    LET adt == to_node(inv.ast_id)
        One(call) ==
            LET slot == DeriveSlot(adt, call.attr_id)
            IN  IF slot.tag = "Some" /\ slot.value.tag = "Left"
                THEN <<Entry("DERIVE_MACRO_CALL", slot.value.value,
                             [attr_id |-> call.attr_id, call_id |-> call.call_id,
                              calls |-> call.calls])>>
                ELSE <<>>
    IN  ForEach([i \in DOMAIN inv.calls |-> One(inv.calls[i])])

ItemScope_child_by_source_to(self, file) ==
    LET Decl(item) == add_module_def(file, item)
        Imp(imp) == add_impl(file, imp)
        Ext(ext) == add_extern_crate(file, ext)
        Use(ext) == add_use(file, ext)
        Konst(k) == add_unnamed_const(file, k)
        Legacy(m) ==
            LET Mac(id) == add_legacy_macro(file, id)
            IN  ForEach([i \in DOMAIN m.ids |-> Mac(m.ids[i])])
        InFile(inv) == inv.ast_id.file_id = file
        derives == SelectSeq(self.derive_macro_invocs, InFile)
    IN  ForEach([i \in DOMAIN self.declarations |-> Decl(self.declarations[i])])
        \o ForEach([i \in DOMAIN self.impls |-> Imp(self.impls[i])])
        \o ForEach([i \in DOMAIN self.extern_crate_decls |-> Ext(self.extern_crate_decls[i])])
        \o ForEach([i \in DOMAIN self.use_decls |-> Use(self.use_decls[i])])
        \o ForEach([i \in DOMAIN self.unnamed_consts |-> Konst(self.unnamed_consts[i])])
        \o AttrMacroCalls(self.attr_macro_invocs, file)
        \o ForEach([i \in DOMAIN self.legacy_macros |-> Legacy(self.legacy_macros[i])])
        \o ForEach([i \in DOMAIN derives |-> add_derives(derives[i])])

\* self.def_map(db)[self.local_id].scope
def_map_scope(self) == ModuleScope

ModuleId_child_by_source_to(self, file) ==
    ItemScope_child_by_source_to(def_map_scope(self), file)

FieldId(parent, local_id) == [parent |-> parent, local_id |-> local_id]

\* The loop body: the slot's FieldId under the key of the slot's form.
add_field(parent, slot) ==
    LET id == FieldId(parent, slot.local_id)
    IN  IF slot.source.tag = "Left"
        THEN <<Entry("TUPLE_FIELD", slot.source.value, id)>>
        ELSE <<Entry("RECORD_FIELD", slot.source.value, id)>>

\* Fault: the field traversal filtered by the requested file.
VariantId_fields_in_file(self, file) ==
    LET arena_map == child_source(self)
        Field(slot) == add_field(self, slot)
    IN  IF arena_map.file_id = file
        THEN ForEach([i \in DOMAIN arena_map.value |-> Field(arena_map.value[i])])
        ELSE <<>>

VariantId_child_by_source_to(self, file) ==
    LET arena_map == child_source(self)
        Field(slot) == add_field(self, slot)
    IN  ForEach([i \in DOMAIN arena_map.value |-> Field(arena_map.value[i])])

\* Fault: the enum's variants recorded whatever the requested file.
EnumId_any_file(self, file) ==
    LET loc == lookup(self)
        Variant(v) ==
            <<Entry("ENUM_VARIANT",
                    Node(loc.file, lookup(v[1]).value, <<"item", 0>>), v[1])>>
        variants == enum_data(self).variants
    IN  ForEach([i \in DOMAIN variants |-> Variant(variants[i])])

EnumId_child_by_source_to(self, file) ==
    LET loc == lookup(self)
        Variant(v) ==
            <<Entry("ENUM_VARIANT",
                    Node(loc.file, lookup(v[1]).value, <<"item", 0>>), v[1])>>
    IN  IF file # loc.file THEN <<>>
        ELSE ForEach([i \in DOMAIN enum_data(self).variants |->
                         Variant(enum_data(self).variants[i])])

\* Fault: every block gets a map of its own and the last one is returned.
DefWithBodyId_last_block(self, file) ==
    LET bs == blocks(self)
    IN  IF bs = <<>>
        THEN (IF self.kind = "EnumVariantId"
              THEN VariantId_child_by_source_to(self, file) ELSE <<>>)
        ELSE ItemScope_child_by_source_to(bs[Len(bs)], file)

DefWithBodyId_child_by_source_to(self, file) ==
    LET Block(scope) == ItemScope_child_by_source_to(scope, file)
    IN  (IF self.kind = "EnumVariantId"
         THEN VariantId_child_by_source_to(self, file) ELSE <<>>)
        \o ForEach([i \in DOMAIN blocks(self) |-> Block(blocks(self)[i])])

\* ----------------------------------------------------------------- actions

\* child_by_source: a new DynMap, then the container's traversal.
child_by_source(p, c, f, inserts) ==
    /\ pc[p] = "idle"
    /\ pc' = [pc EXCEPT ![p] = "run"]
    /\ container' = [container EXCEPT ![p] = c]
    /\ file_id' = [file_id EXCEPT ![p] = f]
    /\ res' = [res EXCEPT ![p] = DynMapDefault]
    /\ todo' = [todo EXCEPT ![p] = inserts]
    /\ UNCHANGED db

TraitChildBySource(p) ==
    \E t \in Traits, f \in Files :
        child_by_source(p, TraitC(t), f, TraitId_child_by_source_to(t, f))

ImplChildBySource(p) ==
    \E i \in Impls, f \in Files :
        child_by_source(p, ImplC(i), f, ImplId_child_by_source_to(i, f))

ModuleChildBySource(p) ==
    \E m \in Modules, f \in Files :
        child_by_source(p, ModuleC(m), f, ModuleId_child_by_source_to(m, f))

VariantChildBySource(p) ==
    \E v \in Variants, f \in Files :
        child_by_source(p, VariantC(v), f, VariantId_child_by_source_to(v, f))

EnumChildBySource(p) ==
    \E e \in Enums, f \in Files :
        child_by_source(p, EnumC(e), f, EnumId_child_by_source_to(e, f))

BodyChildBySource(p) ==
    \E b \in Bodies, f \in Files :
        child_by_source(p, BodyC(b), f, DefWithBodyId_child_by_source_to(b, f))

\* The traversal's next insertion into the call's map.
Insert(p) ==
    /\ pc[p] = "run"
    /\ todo[p] # <<>>
    /\ res' = [res EXCEPT ![p] = DynMapInsert(res[p], Head(todo[p]))]
    /\ todo' = [todo EXCEPT ![p] = Tail(todo[p])]
    /\ UNCHANGED <<db, pc, container, file_id>>

\* The traversal is over: the map is returned to the caller.
Return(p) ==
    /\ pc[p] = "run"
    /\ todo[p] = <<>>
    /\ pc' = [pc EXCEPT ![p] = "done"]
    /\ UNCHANGED <<db, container, file_id, todo, res>>

\* The caller is done with the map it was returned and drops it.
Drop(p) ==
    /\ pc[p] = "done"
    /\ pc' = [pc EXCEPT ![p] = "idle"]
    /\ container' = [container EXCEPT ![p] = NoContainer]
    /\ file_id' = [file_id EXCEPT ![p] = 1]
    /\ res' = [res EXCEPT ![p] = {}]
    /\ UNCHANGED <<db, todo>>

Init ==
    /\ db \in Snapshots
    /\ pc = [p \in Callers |-> "idle"]
    /\ container = [p \in Callers |-> NoContainer]
    /\ file_id = [p \in Callers |-> 1]
    /\ todo = [p \in Callers |-> <<>>]
    /\ res = [p \in Callers |-> {}]

Next ==
    \E p \in Callers :
        \/ TraitChildBySource(p)
        \/ ImplChildBySource(p)
        \/ ModuleChildBySource(p)
        \/ VariantChildBySource(p)
        \/ EnumChildBySource(p)
        \/ BodyChildBySource(p)
        \/ Insert(p)
        \/ Return(p)
        \/ Drop(p)

Spec == Init /\ [][Next]_vars

\* ------------------------------------------------------------- properties

Range(s) == {s[i] : i \in 1..Len(s)}

Done(p, tag) == pc[p] = "done" /\ container[p].tag = tag

FieldKeys == {"TUPLE_FIELD", "RECORD_FIELD"}

\* The file of the Location recorded for an entry's identifier: a field's
\* is its parent's, a derive's is its call's, any other id has its own.
EntryFile(e) ==
    IF e.key \in FieldKeys THEN lookup(e.id.parent).file
    ELSE IF e.key = "DERIVE_MACRO_CALL" THEN lookup(e.id.call_id).file
    ELSE lookup(e.id).file

\* The category key of an item id's kind.
CategoryOf(kind) ==
    CASE kind = "FunctionId" -> "FUNCTION"
      [] kind = "ConstId" -> "CONST"
      [] kind = "StaticId" -> "STATIC"
      [] kind = "TypeAliasId" -> "TYPE_ALIAS"
      [] kind = "TraitId" -> "TRAIT"
      [] kind = "TraitAliasId" -> "TRAIT_ALIAS"
      [] kind = "StructId" -> "STRUCT"
      [] kind = "UnionId" -> "UNION"
      [] kind = "EnumId" -> "ENUM"
      [] kind = "Macro2Id" -> "MACRO2"
      [] kind = "MacroRulesId" -> "MACRO_RULES"
      [] kind = "ProcMacroId" -> "PROC_MACRO"
      [] kind = "ImplId" -> "IMPL"
      [] kind = "ExternCrateId" -> "EXTERN_CRATE"
      [] kind = "UseId" -> "USE"

\* An item id's entry: its own node in its own file, under its kind's key.
ItemEntry(id) ==
    Entry(CategoryOf(id.kind),
          [file |-> db.fileOf[GroupOf(id)], item |-> id.idx, part |-> <<"item", 0>>], id)

\* Kinds of declarations that have no category key.
Unkeyed == {"ModuleId", "EnumVariantId", "BuiltinType"}

\* The ids the forward pass recorded in a scope as declarations, impls,
\* extern crates, uses and anonymous constants.
Declared(scope) ==
    Range(scope.declarations) \cup Range(scope.impls)
    \cup Range(scope.extern_crate_decls) \cup Range(scope.use_decls)
    \cup Range(scope.unnamed_consts)

LegacyIds(scope) == UNION {Range(m.ids) : m \in Range(scope.legacy_macros)}

DeriveInvocs(scope) ==
    UNION {{[site |-> inv.ast_id, call |-> c] : c \in Range(inv.calls)} :
           inv \in Range(scope.derive_macro_invocs)}

\* The slot a derive's index names holds an attribute.
Resolves(d) ==
    d.call.attr_id + 1 <= Len(db.attrs) /\ db.attrs[d.call.attr_id + 1] = "Attr"

DeriveEntry(d) ==
    Entry("DERIVE_MACRO_CALL",
          [file |-> d.site.file_id, item |-> d.site.value,
           part |-> <<"attr", d.call.attr_id>>],
          d.call)

AttrEntry(c) ==
    Entry("ATTR_MACRO_CALL",
          [file |-> c.ast_id.file_id, item |-> c.ast_id.value, part |-> <<"item", 0>>],
          c.call_id)

\* Every child of a scope: the declared ids, the macro calls on it and on its
\* items, and the ids of its legacy macro bindings.
ScopeChildren(scope) ==
    Declared(scope) \cup LegacyIds(scope)
    \cup {c.call_id : c \in Range(scope.attr_macro_invocs)}
    \cup {d.call : d \in DeriveInvocs(scope)}

\* The children that can be recorded: not the declarations without a key,
\* of the legacy bindings only the macro_rules, of the derives only those
\* whose slot holds an attribute.
KeyedChildren(scope) ==
    {d \in Declared(scope) : d.kind \notin Unkeyed}
    \cup {m \in LegacyIds(scope) : m.kind = "MacroRulesId"}
    \cup {c.call_id : c \in Range(scope.attr_macro_invocs)}
    \cup {d.call : d \in {x \in DeriveInvocs(scope) : Resolves(x)}}

\* The files of a scope's children.
ChildFiles(scope) ==
    {lookup(d).file : d \in Declared(scope) \cup LegacyIds(scope)}
    \cup {c.ast_id.file_id : c \in Range(scope.attr_macro_invocs)}
    \cup {d.site.file_id : d \in DeriveInvocs(scope)}

\* What the traversal of a scope is to record for a file.
ScopeEntries(scope, f) ==
    {ItemEntry(d) :
        d \in {x \in {y \in Declared(scope) : y.kind \notin Unkeyed}
                     \cup {m \in LegacyIds(scope) : m.kind = "MacroRulesId"} :
                 lookup(x).file = f}}
    \cup {AttrEntry(c) : c \in {x \in Range(scope.attr_macro_invocs) : x.ast_id.file_id = f}}
    \cup {DeriveEntry(d) :
            d \in {x \in DeriveInvocs(scope) : x.site.file_id = f /\ Resolves(x)}}

\* The fields of a variant: slot i is field i of the variant, under the key
\* of its form.
FieldEntries(v) ==
    {Entry(IF FieldForms(v)[i + 1] = "Tuple" THEN "TUPLE_FIELD" ELSE "RECORD_FIELD",
           [file |-> lookup(v).file, item |-> v.idx, part |-> <<"field", i>>],
           [parent |-> v, local_id |-> i]) :
        i \in {j \in 0..Len(FieldForms(v)) : j < Len(FieldForms(v))}}

\* C1 as stated: every entry of a returned index has an identifier whose
\* Location file is the requested file, for every container kind.
C1_AllEntriesInFile ==
    \A p \in Callers :
        pc[p] = "done" => \A e \in res[p] : EntryFile(e) = file_id[p]

\* C1 as amended: every entry other than a field entry has an identifier
\* whose Location file is the requested file; field entries are those of the
\* container's own fields whatever the requested file.
C1_NonFieldEntriesInFile ==
    \A p \in Callers :
        pc[p] = "done" =>
            \A e \in res[p] :
                IF e.key \in FieldKeys
                THEN e.id.parent = container[p].id
                ELSE EntryFile(e) = file_id[p]

\* A module's index for the macro file is returned, non empty, while an impl
\* of the module is in another file.
C1_Witness ==
    \E p \in Callers :
        /\ Done(p, "ModuleId")
        /\ res[p] # {}
        /\ lookup(TheImpl).file # file_id[p]

\* Two returned indexes of one module for the two distinct files that the
\* module's children are split between.
SplitCalls(p, q) ==
    /\ Done(p, "ModuleId") /\ Done(q, "ModuleId")
    /\ container[p] = container[q]
    /\ file_id[p] # file_id[q]
    /\ ChildFiles(def_map_scope(container[p].id)) = {file_id[p], file_id[q]}

\* C2 as stated: the two indexes are disjoint and hold, between them, every
\* child of the module.
C2_UnionIsAllChildren ==
    \A p, q \in Callers :
        SplitCalls(p, q) =>
            /\ res[p] \cap res[q] = {}
            /\ {e.id : e \in res[p] \cup res[q]}
                 = ScopeChildren(def_map_scope(container[p].id))

\* C2 as amended: the two indexes are disjoint and hold, between them, the
\* module's children other than declarations without a category key (nested
\* modules), legacy bindings that are not macro_rules, and derives whose
\* indexed slot holds no attribute.
C2_UnionIsKeyedChildren ==
    \A p, q \in Callers :
        SplitCalls(p, q) =>
            /\ res[p] \cap res[q] = {}
            /\ {e.id : e \in res[p] \cup res[q]}
                 = KeyedChildren(def_map_scope(container[p].id))

\* Both indexes of a split module are returned and neither is empty.
C2_Witness ==
    \E p, q \in Callers : SplitCalls(p, q) /\ res[p] # {} /\ res[q] # {}

C4_DerivePositional ==
    \A p \in Callers :
        Done(p, "ModuleId") =>
            LET ds == {x \in DeriveInvocs(def_map_scope(container[p].id)) :
                         x.site.file_id = file_id[p]}
                got == {e \in res[p] : e.key = "DERIVE_MACRO_CALL"}
            IN  /\ got = {DeriveEntry(d) : d \in {x \in ds : Resolves(x)}}
                /\ (\A d \in ds : Resolves(d)) =>
                     Cardinality({e.node : e \in got}) = Cardinality(ds)

\* The item's attributes are derive, doc comment, derive, and the module's
\* index for the item's file holds both derives.
C4_Witness ==
    \E p \in Callers :
        /\ Done(p, "ModuleId")
        /\ db.attrs = DocBetween
        /\ Cardinality({e \in res[p] : e.key = "DERIVE_MACRO_CALL"}) = 2

\* C5: whatever the requested file, the index returned for a variant holds
\* exactly one entry per slot of its field arena, the slot's FieldId under
\* the tuple field key or the record field key as the slot's form is; the
\* struct with two tuple fields has two tuple field entries.
C5_FieldsIgnoreFile ==
    \A p \in Callers :
        Done(p, "VariantId") =>
            /\ res[p] = FieldEntries(container[p].id)
            /\ Cardinality(res[p]) = Len(FieldForms(container[p].id))
            /\ container[p].id = TheStruct =>
                 Cardinality({e \in res[p] : e.key = "TUPLE_FIELD"}) = 2

\* The struct's index is returned for a file that is not the struct's.
C5_Witness ==
    \E p \in Callers :
        /\ Done(p, "VariantId")
        /\ container[p].id = TheStruct
        /\ file_id[p] # lookup(TheStruct).file
        /\ Cardinality(res[p]) = 2

\* C6: the index returned for an enum is empty when the requested file is
\* not the enum's; otherwise it holds one enum variant entry per variant, at
\* the variant's node, and no field entry.
C6_EnumVariants ==
    \A p \in Callers :
        Done(p, "EnumId") =>
            LET e == container[p].id
                vs == {v[1] : v \in Range(enum_data(e).variants)}
            IN  IF file_id[p] # lookup(e).file
                THEN res[p] = {}
                ELSE /\ res[p] =
                          {Entry("ENUM_VARIANT",
                                 [file |-> lookup(e).file, item |-> v.idx,
                                  part |-> <<"item", 0>>], v) : v \in vs}
                     /\ Cardinality(res[p]) = Cardinality(vs)
                     /\ \A x \in res[p] : x.key \notin FieldKeys

\* One caller has the enum's index for the enum's file, the other for
\* another file.
C6_Witness ==
    \E p, q \in Callers :
        /\ Done(p, "EnumId") /\ Done(q, "EnumId")
        /\ file_id[p] = lookup(TheEnum).file /\ res[p] # {}
        /\ file_id[q] # lookup(TheEnum).file

\* C7: the index returned for a body holds the owner's field entries when
\* the owner is an enum variant, and the entries of the root scope of every
\* block of the body; while it is built, the fields are there before any
\* block's entry, and the entries of a block are there, all of them, before
\* any entry of a later block.
C7_BodyMerged ==
    \A p \in Callers :
        container[p].tag = "DefWithBodyId" =>
            LET b == container[p].id
                fields == IF b.kind = "EnumVariantId" THEN FieldEntries(b) ELSE {}
                inblocks == UNION {ScopeEntries(blocks(b)[i], file_id[p]) :
                                     i \in 1..Len(blocks(b))}
            IN  /\ pc[p] = "done" => res[p] = fields \cup inblocks
                /\ (res[p] \ fields # {}) => fields \subseteq res[p]
                /\ \A j \in 1..Len(blocks(b)) :
                     (ScopeEntries(blocks(b)[j], file_id[p]) \cap res[p] # {}) =>
                        \A k \in {i \in 1..j : i < j} :
                            ScopeEntries(blocks(b)[k], file_id[p]) \subseteq res[p]

\* The function's body is returned with entries of both of its blocks, and
\* the variant's body with a field and a block's constant.
C7_Witness ==
    \E p, q \in Callers :
        /\ Done(p, "DefWithBodyId") /\ container[p].id = TheFn
        /\ \A i \in 1..Len(blocks(TheFn)) :
              ScopeEntries(blocks(TheFn)[i], file_id[p]) \cap res[p] # {}
        /\ Done(q, "DefWithBodyId") /\ container[q].id = VariantA
        /\ \E e \in res[q] : e.key = "RECORD_FIELD"
        /\ \E e \in res[q] : e.key = "CONST"

\* The associated items and the attribute calls of a trait or an impl.
AssocItems(c) ==
    IF c.tag = "TraitId" THEN {it[2] : it \in Range(trait_data(c.id).items)}
    ELSE Range(impl_data(c.id).items)

AttributeCalls(c) ==
    IF c.tag = "TraitId" THEN Range(trait_data(c.id).attribute_calls)
    ELSE Range(impl_data(c.id).attribute_calls)

\* C8: the index returned for a trait or an impl holds an associated item,
\* under its kind's key, exactly when the item's file is the requested one,
\* and an attribute call exactly when its site is in the requested file; an
\* impl whose function, constant and type alias are all in the requested
\* file, with no attribute call there, has three entries under three keys.
C8_AssocItems ==
    \A p \in Callers :
        (Done(p, "TraitId") \/ Done(p, "ImplId")) =>
            LET items == AssocItems(container[p])
                calls == AttributeCalls(container[p])
            IN  /\ res[p] =
                     {ItemEntry(it) : it \in {x \in items : lookup(x).file = file_id[p]}}
                     \cup {AttrEntry(c) : c \in {x \in calls : x.ast_id.file_id = file_id[p]}}
                /\ ((\A it \in items : lookup(it).file = file_id[p])
                    /\ (\A c \in calls : c.ast_id.file_id # file_id[p])) =>
                        /\ Cardinality(res[p]) = 3
                        /\ {e.key : e \in res[p]} = {"FUNCTION", "CONST", "TYPE_ALIAS"}

\* The impl's index is returned for the file of its three items, its
\* attribute call being elsewhere.
C8_Witness ==
    \E p \in Callers :
        /\ Done(p, "ImplId")
        /\ \A it \in AssocItems(container[p]) : lookup(it).file = file_id[p]
        /\ \A c \in AttributeCalls(container[p]) : c.ast_id.file_id # file_id[p]
        /\ Cardinality(res[p]) = 3

\* The traversal a container's kind dispatches to.
child_by_source_to(c, f) ==
    CASE c.tag = "TraitId" -> TraitId_child_by_source_to(c.id, f)
      [] c.tag = "ImplId" -> ImplId_child_by_source_to(c.id, f)
      [] c.tag = "ModuleId" -> ModuleId_child_by_source_to(c.id, f)
      [] c.tag = "VariantId" -> VariantId_child_by_source_to(c.id, f)
      [] c.tag = "EnumId" -> EnumId_child_by_source_to(c.id, f)
      [] c.tag = "DefWithBodyId" -> DefWithBodyId_child_by_source_to(c.id, f)

\* The index of a call that runs alone: the traversal's insertions, in
\* order, into an empty map.
RunAlone(c, f) ==
    LET ins == child_by_source_to(c, f)
        m[i \in 0..Len(ins)] == IF i = 0 THEN {} ELSE DynMapInsert(m[i - 1], ins[i])
    IN  m[Len(ins)]

\* C9: no step changes the snapshot; a call starts with an empty index; a
\* step of one call leaves the other calls' indexes as they are; and the
\* index a call returns is the one it returns when it runs alone, whatever
\* the other callers did meanwhile.
C9_Pure ==
    [][/\ db' = db
       /\ \A p \in Callers :
            /\ (pc[p] = "idle" /\ pc'[p] = "run") => res'[p] = {}
            /\ (res'[p] # res[p] \/ pc'[p] # pc[p]) =>
                 \A q \in Callers \ {p} : res'[q] = res[q] /\ todo'[q] = todo[q]
            /\ (pc[p] = "run" /\ pc'[p] = "done") =>
                 res'[p] = RunAlone(container'[p], file_id'[p])]_vars

\* Two callers have built, at the same time, the index of the same module
\* for the same file, and both have it.
C9_Witness ==
    \E p, q \in Callers :
        /\ p # q
        /\ Done(p, "ModuleId") /\ Done(q, "ModuleId")
        /\ file_id[p] = file_id[q]
        /\ res[p] # {} /\ res[p] = res[q]

\* An insertion that would give a node of the index a second identifier
\* under the same key.
Conflicts(map, e) ==
    \E x \in map : x.key = e.key /\ x.node = e.node /\ x.id # e.id

\* C10: at every point of a call, no node of the index has two identifiers
\* under one key, and the insertion the traversal makes next replaces no
\* entry by a different identifier.
C10_WriteOnce ==
    \A p \in Callers :
        /\ \A x \in res[p] : ~Conflicts(res[p], x)
        /\ (pc[p] = "run" /\ todo[p] # <<>>) => ~Conflicts(res[p], Head(todo[p]))

\* The traversal of the module's scope is about to record a legacy macro
\* that the declarations recorded already, the index holding the declared
\* and the anonymous constant.
C10_Witness ==
    \E p \in Callers :
        /\ pc[p] = "run" /\ container[p].tag = "ModuleId"
        /\ todo[p] # <<>>
        /\ Head(todo[p]).key = "MACRO_RULES"
        /\ Head(todo[p]) \in res[p]
        /\ Cardinality({e \in res[p] : e.key = "CONST"}) = 2

====
